---- MODULE Spec2Model ----
(***************************************************************************)
(* SecureShare: the ephemeral credentialed storage engine.                 *)
(*                                                                         *)
(* The request handlers of server/routes.ts and the SqliteStorage class    *)
(* they call.  Every handler is an async function: it runs from one await  *)
(* to the next without interruption, and other handlers, the cleanup job   *)
(* and the clock may act at each await.  One action below is one such      *)
(* uninterrupted piece of a handler, with the database statements and      *)
(* file system calls it performs.                                          *)
(*                                                                         *)
(* A field of a request (password, fileId, text) is drawn at the step in   *)
(* which the handler first uses it: until then nothing depends on it.      *)
(*                                                                         *)
(* accessLimiter (100 requests in 15 minutes on the access route) is not   *)
(* reached by the few requests of a run and has no action.                 *)
(***************************************************************************)
EXTENDS Integers, Sequences, FiniteSets, TLC

\* ------------------------------------------------------------- bounds
MaxReqs == 2      \* request handlers that can be in flight at once
MaxTicks == 1     \* times the clock advances
MaxBlobs == 2     \* files received by the upload middleware in a run
MaxFiles == 2     \* files carried by one upload request
ConcBlobs == 1    \* files received in a run of concurrent handlers
MaxWrong == 4     \* wrong-password access requests counted per slot
MaxRuns == 2      \* cleanup runs in succession that are counted
MaxOverlap == 2   \* executions of the cleanup job that can be counted at once

\* ---------------------------------------------------- program constants
TTL == 86400000           \* 24 * 60 * 60 * 1000 ms
MaxAttempts == 3          \* remainingAttempts = 3 - failedAttempts
MinPasswordLen == 4       \* password.length < 4 is rejected

\* ------------------------------------------------------------- inputs
Procs == 1..MaxReqs
\* what Math.floor(Math.random() * 3) and the calls of
\* Math.floor(Math.random() * 10) give, in the order of the calls, in runs of
\* generateSlotId
SlotDraws == {<<0, 1, 0, 4, 7, 2, 9>>, <<1, 0, 0, 3, 1, 3, 3, 7>>}
AllDraws == SlotDraws \cup {<<2, 9, 0, 2, 1, 0, 5, 6, 8>>}

\* id += n: the decimal numeral of n
RECURSIVE NumberToString(_)
NumberToString(n) ==
    IF n < 10
    THEN <<"0", "1", "2", "3", "4", "5", "6", "7", "8", "9">>[n + 1]
    ELSE NumberToString(n \div 10) \o NumberToString(n % 10)

\* the loop of generateSlotId, i digits done
RECURSIVE AppendDigits(_, _, _, _)
AppendDigits(id, i, length, draws) ==
    IF i < length
    THEN AppendDigits(id \o NumberToString(draws[i + 2]), i + 1, length, draws)
    ELSE id

\* a variant with ids of 5 to 7 digits: C21 fails with it
generateSlotId_Short(draws) == AppendDigits("", 0, draws[1] + 5, draws)

\* generateSlotId: length = Math.floor(Math.random() * 3) + 6
generateSlotId(draws) == AppendDigits("", 0, draws[1] + 6, draws)

\* the ids of the requests: "104729", "0031337", and with "90210568" AllIds
SlotIds == {generateSlotId(d) : d \in SlotDraws}
AllIds == {generateSlotId(d) : d \in AllDraws}
\* passwords of access, upload, download and delete requests
Passwords == {"abcd", "wxyz"}
\* passwords of create requests: one that is accepted, one that is too short
CreatePasswords == {"abcd", "abc"}
\* the password of a create request whose body has none
MissingPassword == ""
\* a step to the instant of expiry of a slot, and a step past it
TickSteps == {TTL, TTL + 1}
FileIds == 1..MaxBlobs
\* text fields of an upload, as sequences of characters
TextInputs == {<< >>, <<" ">>, <<"h", "i">>, <<"y", "o", " ">>}
\* the text fields of the uploads of concurrent handlers
ConcTexts == {<< >>, <<"h", "i">>}

VARIABLES
    slots,      \* table slots: id -> row
    files,      \* table files: set of rows
    texts,      \* table text_contents: slotId -> content
    blobs,      \* names of the files in the uploads directory
    now,        \* Date.now()
    ticks,      \* number of clock advances so far
    nextBlob,   \* random draws used for blob names
    nextFileId, \* random draws used for file ids
    pc,         \* per handler: where it is suspended
    req,        \* per handler: the request it serves
    loc,        \* per handler: its local variables
    out,        \* the response sent by the last step, if it sent one
    history,    \* what the properties need of the past: made, the slot ids
                \* created so far; secret, per slot id, the password its
                \* slot was last created with; wrong, per slot id, the access
                \* requests verified with another password than the slot's
                \* since it was last created
    sweepPc,    \* the cleanup job: where it is suspended
    sweepList,  \* the cleanup job: expired slots still to delete
    sweepDel,   \* the cleanup job: deleteSlot's local variables
    cron        \* the schedule: due, its time has come and the callback is
                \* yet to be called; runs, the executions of the callback
                \* that have begun and are not over

vars == <<slots, files, texts, blobs, now, ticks, nextBlob, nextFileId,
          pc, req, loc, out, history, sweepPc, sweepList, sweepDel, cron>>

db == <<slots, files, texts>>
clock == <<now, ticks>>
sweep == <<sweepPc, sweepList, sweepDel, cron>>

\* ------------------------------------------------------- local values
\* a request; stored: the names multer gave to the files of an upload
NoReq == [kind |-> "none", slotId |-> "", password |-> "", fileId |-> 0,
          stored |-> {}, text |-> << >>]
NoResp == [code |-> "none", remaining |-> 0, slot |-> << >>,
           files |-> {}, text |-> << >>, bytes |-> << >>]
\* raced is history: what a slot held when it was deleted under the handler
Blank == [slot |-> << >>, isValid |-> FALSE, del |-> {}, after |-> "",
          todo |-> << >>, rfiles |-> {}, file |-> << >>, newId |-> "",
          raced |-> << >>]
\* a response, with the request it answers, the slot its handler had read,
\* the handler's raced and, for an upload, the text row its slot had before
\* the handler's last step; or the log line of a finished cleanup run, with
\* the number of runs that have finished in succession
NoOut == [req |-> NoReq, slot |-> << >>, resp |-> NoResp, raced |-> << >>,
          prior |-> << >>, runs |-> 0]
NoSweepDel == [id |-> "", del |-> {}]

Reply(code) == [NoResp EXCEPT !.code = code]

\* ------------------------------------------------------- pure helpers
\* argon2.hash / argon2.verify
argon2hash(password) == <<"argon2id", password>>
\* a variant that verifies every password: C14 fails with it
argon2verify_Any(hash, password) == TRUE
argon2verify(hash, password) == hash[1] = "argon2id" /\ hash[2] = password

\* String.prototype.trim on a sequence of characters
RECURSIVE TrimLeft(_)
TrimLeft(t) == IF t # << >> /\ Head(t) = " " THEN TrimLeft(Tail(t)) ELSE t
RECURSIVE TrimRight(_)
TrimRight(t) ==
    IF t # << >> /\ t[Len(t)] = " "
    THEN TrimRight(SubSeq(t, 1, Len(t) - 1))
    ELSE t
trim(t) == TrimRight(TrimLeft(t))
\* text && text.trim()
HasText(t) == t # << >> /\ trim(t) # << >>

\* a variant that rejects only the request without password: C28 fails
\* with it
PasswordRejected_Missing(password) == password = ""

\* !password || password.length < 4
PasswordRejected(password) == password = "" \/ Len(password) < MinPasswordLen


\* a variant that hands the slot on as it is: C23 fails with it
sanitizeSlot_Whole(slot) == slot

sanitizeSlot(slot) ==
    [id |-> slot.id, createdAt |-> slot.createdAt, expiresAt |-> slot.expiresAt]

\* two variants of the expiry test: C3 fails with the first, C4 with the second
IsExpired_AtExpiry(t, slot) == t >= slot.expiresAt
IsExpired_Never(t, slot) == FALSE
\* a variant that lets a slot live one instant longer: C37 as amended fails
\* with it
IsExpired_Late(t, slot) == t > slot.expiresAt + 1

\* Date.now() > slot.expiresAt
IsExpired(t, slot) == t > slot.expiresAt

\* a variant that allows one more attempt: C1 fails with it
RemainingAttempts_Late(failedAttempts) == MaxAttempts + 1 - failedAttempts

\* 3 - failedAttempts
RemainingAttempts(failedAttempts) == MaxAttempts - failedAttempts

\* a variant that locks out one attempt later: C32 fails with it
LockoutDue_Below(remainingAttempts) == remainingAttempts < 0

\* if (remainingAttempts <= 0)
LockoutDue(remainingAttempts) == remainingAttempts <= 0

\* a variant that finds a row under every id: C9 fails with it
getSlot_Any(slotId) ==
    IF slotId \in DOMAIN slots
    THEN <<slots[slotId]>>
    ELSE <<[id |-> slotId, passwordHash |-> <<"argon2id", "abcd">>,
            createdAt |-> now, expiresAt |-> now + TTL, failedAttempts |-> 0]>>

\* ------------------------------------------------------ storage reads
getSlot(slotId) == IF slotId \in DOMAIN slots THEN <<slots[slotId]>> ELSE << >>
\* a variant that selects the rows of every slot: C22 fails with it
getFiles_All(slotId) == files

getFiles(slotId) == {f \in files : f.slotId = slotId}
getFile(fileId) ==
    IF \E f \in files : f.id = fileId
    THEN <<CHOOSE f \in files : f.id = fileId>>
    ELSE << >>
getTextContent(slotId) ==
    IF slotId \in DOMAIN texts
    THEN <<[slotId |-> slotId, content |-> texts[slotId]]>>
    ELSE << >>
\* a variant that lists every slot: C16 fails with it
getExpiredSlots_All(t) == DOMAIN slots

\* a variant that lists a slot only after its expiry: C15 fails with it
getExpiredSlots_After(t) == {s \in DOMAIN slots : slots[s].expiresAt < t}

\* SELECT * FROM slots WHERE expiresAt <= now
getExpiredSlots(t) == {s \in DOMAIN slots : slots[s].expiresAt <= t}

Init ==
    /\ slots = [s \in {} |-> 0]
    /\ files = {}
    /\ texts = [s \in {} |-> 0]
    /\ blobs = {}
    /\ now = 0
    /\ ticks = 0
    /\ nextBlob = 0
    /\ nextFileId = 0
    /\ pc = [p \in Procs |-> "idle"]
    /\ req = [p \in Procs |-> NoReq]
    /\ loc = [p \in Procs |-> Blank]
    /\ out = NoOut
    /\ history = [made |-> {}, secret |-> [s \in AllIds |-> ""],
                  wrong |-> [s \in AllIds |-> 0]]
    /\ sweepPc = "idle"
    /\ sweepList = {}
    /\ sweepDel = NoSweepDel
    /\ cron = [due |-> FALSE, runs |-> 0]

\* ----------------------------------------------------- storage writes
\* INSERT INTO slots
InsertSlot(sl, row) ==
    [s \in DOMAIN sl \cup {row.id} |-> IF s = row.id THEN row ELSE sl[s]]

\* a variant that starts the count anew: C13 fails with it
\* a variant that also moves the expiry of the row: C20 fails with it
IncrementRow_Extend(sl, slotId) ==
    IF slotId \in DOMAIN sl
    THEN [sl EXCEPT ![slotId].failedAttempts = @ + 1,
                    ![slotId].expiresAt = @ + 1]
    ELSE sl

IncrementRow_Reset(sl, slotId) ==
    IF slotId \in DOMAIN sl
    THEN [sl EXCEPT ![slotId].failedAttempts = 1]
    ELSE sl

\* UPDATE slots SET failedAttempts = failedAttempts + 1 WHERE id = ?
IncrementRow(sl, slotId) ==
    IF slotId \in DOMAIN sl
    THEN [sl EXCEPT ![slotId].failedAttempts = @ + 1]
    ELSE sl

\* a variant that returns the count as it was before the UPDATE: C31 fails
\* with it
IncrementResult_Stale(sl, slotId) ==
    IF slotId \in DOMAIN sl THEN sl[slotId].failedAttempts - 1 ELSE 0

\* slot?.failedAttempts || 0, read after the UPDATE
IncrementResult(sl, slotId) ==
    IF slotId \in DOMAIN sl THEN sl[slotId].failedAttempts ELSE 0

\* a variant that leaves the blobs on disk: C7 fails with it
UnlinkAll_Keep(bl, del) == bl

\* a variant that has not written the files when the handler runs: C33
\* fails with it
StoreBlobs_Late(bl, names) == bl

\* multer.diskStorage: the files of the request are written to the uploads
\* directory under the names it generates
StoreBlobs(bl, names) == bl \cup names

\* fs.existsSync / fs.unlinkSync over the files deleteSlot enumerated
UnlinkAll(bl, del) == bl \ {f.filename : f \in del}

\* a variant without the existsSync guard: C18 fails with it
Unlinked_Unguarded(bl, del) == {f.filename : f \in del}

\* the names fs.unlinkSync is called with: those for which fs.existsSync
\* answered true
Unlinked(bl, del) == {f.filename : f \in del} \cap bl

\* a variant in which a file that is not there makes the deletion throw:
\* C36 fails with it
UnlinkThrows_Missing(bl, del) == \E f \in del : f.filename \notin bl

\* fs.unlinkSync throws when it is called for a file that is not there
UnlinkThrows(bl, del) == \E n \in Unlinked(bl, del) : n \notin bl

\* a variant that leaves the row: C17 fails with it
DeleteRow_Keep(sl, slotId) == sl

\* DELETE FROM slots WHERE id = ?
DeleteRow(sl, slotId) == [s \in DOMAIN sl \ {slotId} |-> sl[s]]

\* a variant without the cascade: C8 fails with it
CascadeFiles_None(fs, slotId) == fs

\* FOREIGN KEY (slotId) REFERENCES slots (id) ON DELETE CASCADE, table files
CascadeFiles(fs, slotId) == {f \in fs : f.slotId # slotId}

\* a variant without the cascade: C35 fails with it
CascadeText_None(tx, slotId) == tx

\* FOREIGN KEY (slotId) REFERENCES slots (id) ON DELETE CASCADE, text_contents
CascadeText(tx, slotId) == [s \in DOMAIN tx \ {slotId} |-> tx[s]]

\* a variant that keeps the row that is there: C25 fails with it
UpsertText_Ignore(tx, slotId, content) ==
    IF slotId \in DOMAIN tx
    THEN tx
    ELSE [s \in DOMAIN tx \cup {slotId} |-> IF s = slotId THEN content ELSE tx[s]]

\* a variant that replaces the rows of the slot: C26 fails with it
addFile_Replace(fs, row) == {f \in fs : f.slotId # row.slotId} \cup {row}

\* INSERT INTO files
addFile(fs, row) == fs \cup {row}

\* INSERT OR REPLACE INTO text_contents
UpsertText(tx, slotId, content) ==
    [s \in DOMAIN tx \cup {slotId} |-> IF s = slotId THEN content ELSE tx[s]]

\* deleteSlot after its await of getFiles: unlink the blobs, delete the row
deleteSlotFinish(slotId, del) ==
    /\ blobs' = UnlinkAll(blobs, del)
    /\ slots' = DeleteRow(slots, slotId)
    /\ files' = CascadeFiles(files, slotId)
    /\ texts' = CascadeText(texts, slotId)


\* argon2.verify throws: the stored value is not an encoded hash, or the
\* request has no password to hash
argon2verifyThrows(hash, password) ==
    hash[1] # "argon2id" \/ password = MissingPassword

\* a variant without the catch: C29 fails with it
verifySlotPasswordRaises_NoCatch(slotId, password) ==
    LET slot == getSlot(slotId) IN
    slot # << >> /\ argon2verifyThrows(slot[1].passwordHash, password)

\* verifySlotPassword raises: it returns before the try when there is no
\* row, and a throw of argon2.verify inside the try is caught
verifySlotPasswordRaises(slotId, password) ==
    LET slot == getSlot(slotId)
        caught == TRUE
    IN slot # << >> /\ argon2verifyThrows(slot[1].passwordHash, password)
                   /\ ~caught

\* a variant that accepts every password: C10 fails with it
verifySlotPassword_Any(slotId, password) == TRUE

\* verifySlotPassword: getSlot, then argon2.verify, false when there is no
\* row and from the catch
verifySlotPassword(slotId, password) ==
    LET slot == getSlot(slotId) IN
    slot # << >> /\ argon2verify(slot[1].passwordHash, password)

\* ------------------------------------------------------ handler plumbing
Free(p) == pc[p] = "idle"
\* a new request is served by the first free handler
CanStart(p) == Free(p) /\ \A q \in Procs : q < p => ~Free(q)

Begin(p, r, at, l) ==
    /\ req' = [req EXCEPT ![p] = r]
    /\ pc' = [pc EXCEPT ![p] = at]
    /\ loc' = [loc EXCEPT ![p] = l]
    /\ out' = NoOut

Goto(p, at, l) ==
    /\ pc' = [pc EXCEPT ![p] = at]
    /\ loc' = [loc EXCEPT ![p] = l]
    /\ out' = NoOut
    /\ UNCHANGED req

\* res.status(...).json(...): the handler ends
RespondWith(p, r, answer, l) ==
    /\ pc' = [pc EXCEPT ![p] = "idle"]
    /\ req' = [req EXCEPT ![p] = NoReq]
    /\ loc' = [l EXCEPT ![p] = Blank]
    /\ out' = [req |-> r, slot |-> loc[p].slot, resp |-> answer,
               raced |-> loc[p].raced,
               prior |-> IF r.kind = "upload" THEN getTextContent(r.slotId)
                                              ELSE << >>,
               runs |-> 0]
Respond(p, r, answer) == RespondWith(p, r, answer, loc)

\* history: the access handlers under way on slot slotId when deleteSlot
\* removes it note the files and the text the slot held
Raced(slotId) ==
    [q \in Procs |->
        IF /\ slotId \in DOMAIN slots
           /\ req[q].kind = "access" /\ req[q].slotId = slotId
           /\ pc[q] \notin {"idle", "deleting"}
        THEN [loc[q] EXCEPT !.raced = <<[files |-> getFiles(slotId),
                                         text |-> getTextContent(slotId)]>>]
        ELSE loc[q]]

\* --------------------------------------------------- POST /api/slot
\* validation, generateSlotId until the id is free, then await argon2.hash
StartCreate(p, ids, password) ==
    /\ CanStart(p)
    /\ LET r == [NoReq EXCEPT !.kind = "create", !.password = password] IN
       IF PasswordRejected(password)
       THEN Respond(p, r, Reply("ValidationError"))
       ELSE \E id \in ids \ DOMAIN slots :
                Begin(p, r, "hashing", [Blank EXCEPT !.newId = id])
    /\ UNCHANGED <<db, blobs, clock, nextBlob, nextFileId, sweep, history>>

\* createSlot after the hash: INSERT INTO slots (id is the primary key)
CreateInsert(p) ==
    /\ pc[p] = "hashing"
    /\ LET row == [id |-> loc[p].newId,
                   passwordHash |-> argon2hash(req[p].password),
                   createdAt |-> now,
                   expiresAt |-> now + TTL,
                   failedAttempts |-> 0]
       IN IF row.id \in DOMAIN slots
          THEN /\ Respond(p, req[p], Reply("InternalError"))
               /\ UNCHANGED <<slots, history>>
          ELSE /\ slots' = InsertSlot(slots, row)
               /\ history' = [made |-> history.made \cup {row.id},
                              secret |-> [history.secret EXCEPT
                                             ![row.id] = req[p].password],
                              wrong |-> [history.wrong EXCEPT ![row.id] = 0]]
               /\ Respond(p, req[p], [Reply("Created") EXCEPT
                     !.slot = <<[slotId |-> row.id, expiresAt |-> row.expiresAt]>>])
    /\ UNCHANGED <<files, texts, blobs, clock, nextBlob, nextFileId, sweep>>

\* const slot: the row the handler read, less failedAttempts, which no
\* handler reads from it (incrementFailedAttempts reads the count anew)
Held(row) == [id |-> row.id, passwordHash |-> row.passwordHash,
              createdAt |-> row.createdAt, expiresAt |-> row.expiresAt]

\* ----------------------------------- the common head of the four handlers
\* const slot = await storage.getSlot(slotId); if (!slot) return 404
GetSlotStep(p, r, l) ==
    LET slot == getSlot(r.slotId) IN
    IF slot = << >>
    THEN Respond(p, r, Reply("NotFound"))
    ELSE Begin(p, r, "gotSlot", [l EXCEPT !.slot = <<Held(slot[1])>>])

\* access, download and delete: the handler starts with getSlot
StartRequest(p, kind, slotId) ==
    /\ CanStart(p)
    /\ GetSlotStep(p, [NoReq EXCEPT !.kind = kind, !.slotId = slotId], Blank)
    /\ UNCHANGED <<db, blobs, clock, nextBlob, nextFileId, sweep, history>>

\* upload: the multer middleware stores the request's files before the handler
StartUpload(p, slotId, k, cap) ==
    /\ CanStart(p)
    /\ nextBlob + k <= cap
    /\ LET names == [i \in 1..k |-> nextBlob + i] IN
       /\ blobs' = StoreBlobs(blobs, {names[i] : i \in 1..k})
       /\ nextBlob' = nextBlob + k
       /\ Begin(p, [NoReq EXCEPT !.kind = "upload", !.slotId = slotId,
                                 !.stored = {names[i] : i \in 1..k}],
                "received", [Blank EXCEPT !.todo = names])
    /\ UNCHANGED <<db, clock, nextFileId, sweep, history>>

UploadGetSlot(p) ==
    /\ pc[p] = "received"
    /\ GetSlotStep(p, req[p], loc[p])
    /\ UNCHANGED <<db, blobs, clock, nextBlob, nextFileId, sweep, history>>

\* history: one more access request verified with a wrong password
WrongAccess(p, password) ==
    LET slotId == req[p].slotId IN
    IF /\ req[p].kind = "access"
       /\ slotId \in DOMAIN slots
       /\ slots[slotId].passwordHash # argon2hash(password)
       /\ history.wrong[slotId] < MaxWrong
    THEN [history EXCEPT !.wrong[slotId] = @ + 1]
    ELSE history

\* if (Date.now() > slot.expiresAt) deleteSlot ... else verifySlotPassword;
\* what verifySlotPassword raises goes to the handler's catch, which answers
\* 500
GotSlot(p, password) ==
    /\ pc[p] = "gotSlot"
    /\ IF IsExpired(now, loc[p].slot[1])
       THEN /\ password = "abcd"
            /\ Goto(p, "deleting", [loc[p] EXCEPT !.del = getFiles(req[p].slotId),
                                                  !.after = "Expired"])
            /\ UNCHANGED history
       ELSE IF verifySlotPasswordRaises(req[p].slotId, password)
       THEN /\ Respond(p, [req[p] EXCEPT !.password = password],
                       Reply("InternalError"))
            /\ UNCHANGED history
       ELSE /\ pc' = [pc EXCEPT ![p] = "verifying"]
            /\ req' = [req EXCEPT ![p].password = password]
            /\ loc' = [loc EXCEPT ![p].isValid =
                           verifySlotPassword(req[p].slotId, password)]
            /\ history' = WrongAccess(p, password)
            /\ out' = NoOut
    /\ UNCHANGED <<db, blobs, clock, nextBlob, nextFileId, sweep>>

\* the rest of deleteSlot, then the handler's response (were an unlink to
\* throw, the files before it are gone and the handler's catch answers 500)
Deleting(p) ==
    /\ pc[p] = "deleting"
    /\ IF UnlinkThrows(blobs, loc[p].del)
       THEN /\ \E done \in SUBSET (Unlinked(blobs, loc[p].del) \cap blobs) :
                  blobs' = blobs \ done
            /\ Respond(p, req[p], Reply("InternalError"))
            /\ UNCHANGED db
       ELSE /\ deleteSlotFinish(req[p].slotId, loc[p].del)
            /\ RespondWith(p, req[p], Reply(loc[p].after), Raced(req[p].slotId))
    /\ UNCHANGED <<clock, nextBlob, nextFileId, sweep, history>>

\* ------------------------------------------- POST /api/slot/:slotId
\* valid: getFiles.  Invalid: incrementFailedAttempts (UPDATE, then getSlot),
\* and with attempts remaining the 401 that tells their number
VerifiedAccess(p) ==
    /\ pc[p] = "verifying"
    /\ req[p].kind = "access"
    /\ IF loc[p].isValid
       THEN /\ Goto(p, "gotFiles", [loc[p] EXCEPT !.rfiles = getFiles(req[p].slotId),
                                                  !.isValid = FALSE])
            /\ UNCHANGED slots
       ELSE /\ slots' = IncrementRow(slots, req[p].slotId)
            /\ LET failedAttempts == IncrementResult(slots', req[p].slotId)
                   remainingAttempts == RemainingAttempts(failedAttempts)
               IN IF LockoutDue(remainingAttempts)
                  THEN Goto(p, "lockout", loc[p])
                  ELSE Respond(p, req[p], [Reply("InvalidCredential") EXCEPT
                                              !.remaining = remainingAttempts])
    /\ UNCHANGED <<files, texts, blobs, clock, nextBlob, nextFileId, sweep, history>>

\* remainingAttempts <= 0: deleteSlot, up to its await of getFiles
Lockout(p) ==
    /\ pc[p] = "lockout"
    /\ Goto(p, "deleting", [loc[p] EXCEPT !.del = getFiles(req[p].slotId),
                                          !.after = "LockedOut"])
    /\ UNCHANGED <<db, blobs, clock, nextBlob, nextFileId, sweep, history>>

\* getTextContent, then the response with sanitizeSlot(slot)
GotFiles(p) ==
    /\ pc[p] = "gotFiles"
    /\ Respond(p, req[p],
               [Reply("OK") EXCEPT !.slot = <<sanitizeSlot(loc[p].slot[1])>>,
                                   !.files = loc[p].rfiles,
                                   !.text = getTextContent(req[p].slotId)])
    /\ UNCHANGED <<db, blobs, clock, nextBlob, nextFileId, sweep, history>>

\* ------------------------------------------ POST /api/upload/:slotId
\* files and text_contents reference slots (id): an insert for a slot id
\* that has no row fails, and the handler's catch answers 500.
\* One piece of the handler after verification: the next addFile or, after
\* the last file, addTextContent; the response follows the last of them.
UploadContinue(p, l, text) ==
    LET slotId == req[p].slotId
        r == [req[p] EXCEPT !.text = text]
    IN
    IF l.todo # << >>
    THEN IF slotId \in DOMAIN slots
         THEN /\ files' = addFile(files, [id |-> nextFileId + 1,
                                           slotId |-> slotId,
                                           filename |-> Head(l.todo)])
              /\ nextFileId' = nextFileId + 1
              /\ IF Tail(l.todo) = << >> /\ ~HasText(text)
                 THEN Respond(p, r, Reply("Uploaded"))
                 ELSE /\ pc' = [pc EXCEPT ![p] = "uploading"]
                      /\ req' = [req EXCEPT ![p] = r]
                      /\ loc' = [loc EXCEPT ![p] = [l EXCEPT !.todo = Tail(l.todo)]]
                      /\ out' = NoOut
              /\ UNCHANGED texts
         ELSE /\ Respond(p, req[p], Reply("InternalError"))
              /\ UNCHANGED <<files, texts, nextFileId>>
    ELSE IF HasText(text)
    THEN IF slotId \in DOMAIN slots
         THEN /\ texts' = UpsertText(texts, slotId, text)
              /\ Respond(p, r, Reply("Uploaded"))
              /\ UNCHANGED <<files, nextFileId>>
         ELSE /\ Respond(p, r, Reply("InternalError"))
              /\ UNCHANGED <<files, texts, nextFileId>>
    ELSE /\ Respond(p, r, Reply("Uploaded"))
         /\ UNCHANGED <<files, texts, nextFileId>>

\* the text field is read once the files are registered
TextRead(p) ==
    IF Len(loc[p].todo) <= 1 /\ req[p].text = << >> THEN TextInputs ELSE {req[p].text}

VerifiedUpload(p) ==
    /\ pc[p] = "verifying"
    /\ req[p].kind = "upload"
    /\ IF loc[p].isValid
       THEN \E t \in TextRead(p) :
                UploadContinue(p, [loc[p] EXCEPT !.isValid = FALSE], t)
       ELSE /\ Respond(p, req[p], Reply("InvalidPassword"))
            /\ UNCHANGED <<files, texts, nextFileId>>
    /\ UNCHANGED <<slots, blobs, clock, nextBlob, sweep, history>>

Uploading(p) ==
    /\ pc[p] = "uploading"
    /\ \E t \in TextRead(p) : UploadContinue(p, loc[p], t)
    /\ UNCHANGED <<slots, blobs, clock, nextBlob, sweep, history>>

\* ----------------------------------- GET /api/download/:slotId/:fileId
VerifiedDownload(p, fileId) ==
    /\ pc[p] = "verifying"
    /\ req[p].kind = "download"
    /\ IF loc[p].isValid
       THEN /\ pc' = [pc EXCEPT ![p] = "gotFile"]
            /\ req' = [req EXCEPT ![p].fileId = fileId]
            /\ loc' = [loc EXCEPT ![p].file = getFile(fileId),
                                  ![p].isValid = FALSE]
            /\ out' = NoOut
       ELSE /\ fileId = 1
            /\ Respond(p, req[p], Reply("InvalidPassword"))
    /\ UNCHANGED <<db, blobs, clock, nextBlob, nextFileId, sweep, history>>

\* a variant that only looks whether there is a file: C24 fails with it
FileMissing_AnySlot(file, slotId) == file = << >>

\* !file || file.slotId !== slotId
FileMissing(file, slotId) == file = << >> \/ file[1].slotId # slotId

\* the ownership check, fs.existsSync, res.download
GotFile(p) ==
    /\ pc[p] = "gotFile"
    /\ LET file == loc[p].file IN
       IF FileMissing(file, req[p].slotId)
       THEN Respond(p, req[p], Reply("FileNotFound"))
       ELSE IF file[1].filename \notin blobs
       THEN Respond(p, req[p], Reply("FileNotFoundOnDisk"))
       ELSE Respond(p, req[p],
                    [Reply("Download") EXCEPT !.bytes = <<file[1].filename>>])
    /\ UNCHANGED <<db, blobs, clock, nextBlob, nextFileId, sweep, history>>

\* ------------------------------------------ DELETE /api/slot/:slotId
VerifiedDelete(p) ==
    /\ pc[p] = "verifying"
    /\ req[p].kind = "delete"
    /\ IF loc[p].isValid
       THEN Goto(p, "deleting", [loc[p] EXCEPT !.del = getFiles(req[p].slotId),
                                               !.after = "Deleted",
                                               !.isValid = FALSE])
       ELSE Respond(p, req[p], Reply("InvalidPassword"))
    /\ UNCHANGED <<db, blobs, clock, nextBlob, nextFileId, sweep, history>>

\* ------------------------------------ the cleanup job, deleteExpiredSlots
\* console.log("Cleanup completed successfully"), after a run whose last
\* deleteSlot was for slot id (none: "")
CleanupCompleted(id) ==
    [NoOut EXCEPT !.req.kind = "cleanup", !.req.slotId = id,
                  !.resp.code = "CleanupCompleted",
                  !.runs = IF out.runs < MaxRuns THEN out.runs + 1 ELSE MaxRuns]

\* console.error("Cleanup job failed:", error), the run given up at the
\* deleteSlot for slot id
CleanupFailed(id) ==
    [NoOut EXCEPT !.req.kind = "cleanup", !.req.slotId = id,
                  !.resp.code = "CleanupFailed"]

\* the callback of the schedule is called: getExpiredSlots; with nothing
\* expired the job is over at once
CronCallback ==
    /\ cron.runs < MaxOverlap
    /\ sweepList' = getExpiredSlots(now)
    /\ sweepPc' = IF sweepList' = {} THEN "idle" ELSE "listed"
    /\ out' = IF sweepList' = {} THEN CleanupCompleted("") ELSE NoOut
    /\ cron' = [due |-> FALSE,
                runs |-> IF sweepList' = {} THEN cron.runs ELSE cron.runs + 1]
    /\ UNCHANGED <<db, blobs, clock, nextBlob, nextFileId, pc, req, loc, history, sweepDel>>

\* the cron trigger, between two runs of the job
SweepStart ==
    /\ sweepPc = "idle"
    /\ CronCallback

\* the loop: deleteSlot(slot.id) up to its await of getFiles
SweepNext ==
    /\ sweepPc = "listed"
    /\ \E id \in sweepList :
          /\ sweepDel' = [id |-> id, del |-> getFiles(id)]
          /\ sweepList' = sweepList \ {id}
          /\ sweepPc' = "deleting"
    /\ out' = NoOut
    /\ UNCHANGED <<db, blobs, clock, nextBlob, nextFileId, pc, req, loc, history, cron>>

\* the rest of deleteSlot; after the last slot of the list the job is over
\* (were an unlink to throw, the files before it are gone and the run is
\* given up in the catch of the job)
SweepDelete ==
    /\ sweepPc = "deleting"
    /\ IF UnlinkThrows(blobs, sweepDel.del)
       THEN /\ \E done \in SUBSET (Unlinked(blobs, sweepDel.del) \cap blobs) :
                  blobs' = blobs \ done
            /\ sweepPc' = "idle"
            /\ sweepList' = {}
            /\ out' = CleanupFailed(sweepDel.id)
            /\ cron' = [cron EXCEPT !.runs = @ - 1]
            /\ UNCHANGED <<db, loc>>
       ELSE /\ deleteSlotFinish(sweepDel.id, sweepDel.del)
            /\ sweepPc' = IF sweepList = {} THEN "idle" ELSE "listed"
            /\ cron' = IF sweepList = {} THEN [cron EXCEPT !.runs = @ - 1]
                                         ELSE cron
            /\ loc' = Raced(sweepDel.id)
            /\ out' = IF sweepList = {} THEN CleanupCompleted(sweepDel.id)
                                        ELSE NoOut
            /\ UNCHANGED sweepList
    /\ sweepDel' = NoSweepDel
    /\ UNCHANGED <<clock, nextBlob, nextFileId, pc, req, history>>

\* the time of the schedule comes: the timer of the schedule is due
CronFire ==
    /\ ~cron.due
    /\ cron' = [cron EXCEPT !.due = TRUE]
    /\ out' = NoOut
    /\ UNCHANGED <<db, blobs, clock, nextBlob, nextFileId, pc, req, loc, history,
                   sweepPc, sweepList, sweepDel>>

\* the event loop runs the timer that is due: the callback is called,
\* whatever the state of an earlier execution
CronTrigger ==
    /\ cron.due
    /\ CronCallback

\* ------------------------------------------------------------ the clock
Tick(d) ==
    /\ ticks < MaxTicks
    /\ now' = now + d
    /\ ticks' = ticks + 1
    /\ out' = NoOut
    /\ UNCHANGED <<db, blobs, nextBlob, nextFileId, pc, req, loc, history, sweep>>

\* ------------------------------------------------------ specifications
\* arrivals: a request for one of the slot ids, the cron trigger, a clock step
ArriveCreate(ids) == \E p \in Procs, pw \in CreatePasswords : StartCreate(p, ids, pw)
ArriveAccess(ids) == \E p \in Procs, id \in ids : StartRequest(p, "access", id)
ArriveDownload(ids) == \E p \in Procs, id \in ids : StartRequest(p, "download", id)
ArriveDelete(ids) == \E p \in Procs, id \in ids : StartRequest(p, "delete", id)
\* the uploads of a run store at most cap files
ArriveUpload(ids, cap) ==
    \E p \in Procs, id \in ids, k \in 0..MaxFiles : StartUpload(p, id, k, cap)
ArriveTick(steps) == \E d \in steps : Tick(d)

\* the steps of what is under way
StepCommon ==
    \/ \E p \in Procs : CreateInsert(p)
    \/ \E p \in Procs, pw \in Passwords : GotSlot(p, pw)
    \/ \E p \in Procs : Deleting(p)
StepAccess ==
    \/ \E p \in Procs : VerifiedAccess(p)
    \/ \E p \in Procs : Lockout(p)
    \/ \E p \in Procs : GotFiles(p)
StepUpload ==
    \/ \E p \in Procs : UploadGetSlot(p)
    \/ \E p \in Procs : VerifiedUpload(p)
    \/ \E p \in Procs : Uploading(p)
StepDownload ==
    \/ \E p \in Procs, f \in FileIds : VerifiedDownload(p, f)
    \/ \E p \in Procs : GotFile(p)
StepDelete == \E p \in Procs : VerifiedDelete(p)
StepSweep == SweepNext \/ SweepDelete
\* the text field of the upload of the step is one of ts
TextIn(ts) == (\A p \in Procs : req'[p].text \in ts) /\ out'.req.text \in ts

\* nothing is under way
Quiet == sweepPc = "idle" /\ \A p \in Procs : pc[p] = "idle"

\* One request at a time, on two slot ids: a request arrives, the cron
\* trigger fires and the clock advances only when nothing is under way.
SeqArrive ==
    \/ ArriveCreate(SlotIds)
    \/ ArriveAccess(SlotIds)
    \/ ArriveUpload(SlotIds, MaxBlobs)
    \/ ArriveDownload(SlotIds)
    \/ ArriveDelete(SlotIds)
    \/ SweepStart
    \/ ArriveTick(TickSteps)
SeqNext ==
    \/ Quiet /\ SeqArrive
    \/ StepCommon
    \/ StepAccess
    \/ StepUpload
    \/ StepDownload
    \/ StepDelete
    \/ StepSweep
SeqSpec == Init /\ [][SeqNext]_vars

\* Concurrent handlers and the cleanup job, all working on one slot id:
\* requests arrive while others are under way.
OneId == {generateSlotId(<<0, 1, 0, 4, 7, 2, 9>>)}

\* One request at a time on one slot id, the slot created with any of the
\* passwords that requests then try; create requests come without password
\* too.
PasswordArrive ==
    \/ \E p \in Procs, pw \in Passwords \cup CreatePasswords \cup {MissingPassword} :
          StartCreate(p, OneId, pw)
    \/ ArriveAccess(OneId)
    \/ ArriveUpload(OneId, MaxBlobs)
    \/ ArriveDownload(OneId)
    \/ ArriveDelete(OneId)
    \/ ArriveTick(TickSteps)
PasswordNext ==
    \/ Quiet /\ PasswordArrive
    \/ StepCommon
    \/ StepAccess
    \/ StepUpload
    \/ StepDownload
    \/ StepDelete
PasswordSpec == Init /\ [][PasswordNext]_vars

\* The cleanup job under its schedule: create and upload requests, one at a
\* time, may come or not.  A handler under way and a cleanup run under way
\* go on to their next step (the event loop resumes every continuation), and
\* the hourly trigger fires again and again when nothing is under way.
SweepArrive ==
    \/ ArriveCreate(OneId)
    \/ ArriveUpload(OneId, MaxBlobs)
    \/ SweepStart
    \/ ArriveTick(TickSteps)
SweepSteps == StepCommon \/ StepUpload \/ StepSweep
SweepSpecNext ==
    \/ Quiet /\ SweepArrive
    \/ SweepSteps
SweepSpec ==
    /\ Init
    /\ [][SweepSpecNext]_vars
    /\ WF_vars(SweepSteps)
    /\ SF_vars(Quiet /\ SweepStart)

\* The cleanup job interleaved with a request handler, on two slot ids: an
\* access request arrives when no handler is under way, a run of the job
\* under way or not, and the cron trigger fires when no run is under way, a
\* handler under way or not; create and upload requests and clock steps come
\* when nothing is under way.
NoHandler == \A p \in Procs : pc[p] = "idle"
RaceArrive ==
    \/ ArriveCreate(SlotIds)
    \/ ArriveUpload(SlotIds, ConcBlobs)
    \/ ArriveTick({TTL + 1})
RaceNext ==
    \/ Quiet /\ RaceArrive
    \/ NoHandler /\ ArriveAccess(SlotIds)
    \/ SweepStart
    \/ StepCommon
    \/ StepAccess
    \/ StepUpload
    \/ StepSweep
RaceSpec == Init /\ [][RaceNext]_vars

\* verifySlotPassword on what it may find: the server opens the database
\* file that is there (CREATE TABLE IF NOT EXISTS), so the slot row of the
\* start holds either a hash that argon2 made or a value that is no encoded
\* hash; requests come with either password or with none, one handler at a
\* time, and the cleanup job may delete the row under the handler.
StoredHashes == {argon2hash("abcd"), <<"plain", "abcd">>}
VerifyPasswords == Passwords \cup {MissingPassword}
VerifyInit ==
    /\ \E h \in StoredHashes :
          slots = [s \in OneId |-> [id |-> s, passwordHash |-> h,
                                    createdAt |-> 0, expiresAt |-> TTL,
                                    failedAttempts |-> 0]]
    /\ files = {}
    /\ texts = [s \in {} |-> 0]
    /\ blobs = {}
    /\ now = 0
    /\ ticks = 0
    /\ nextBlob = 0
    /\ nextFileId = 0
    /\ pc = [p \in Procs |-> "idle"]
    /\ req = [p \in Procs |-> NoReq]
    /\ loc = [p \in Procs |-> Blank]
    /\ out = NoOut
    /\ history = [made |-> {}, secret |-> [s \in AllIds |-> ""],
                  wrong |-> [s \in AllIds |-> 0]]
    /\ sweepPc = "idle"
    /\ sweepList = {}
    /\ sweepDel = NoSweepDel
    /\ cron = [due |-> FALSE, runs |-> 0]
VerifyArrive ==
    \/ ArriveCreate(OneId)
    \/ ArriveUpload(OneId, ConcBlobs)
    \/ ArriveDownload(OneId)
    \/ ArriveDelete(OneId)
    \/ ArriveTick(TickSteps)
VerifyNext ==
    \/ Quiet /\ VerifyArrive
    \/ NoHandler /\ ArriveAccess(OneId)
    \/ SweepStart
    \/ \E p \in Procs : CreateInsert(p)
    \/ \E p \in Procs, pw \in VerifyPasswords : GotSlot(p, pw)
    \/ \E p \in Procs : Deleting(p)
    \/ StepAccess
    \/ StepUpload
    \/ StepDownload
    \/ StepDelete
    \/ StepSweep
VerifySpec == VerifyInit /\ [][VerifyNext]_vars

\* Uploads and deletions on one slot id, handlers and the cleanup job
\* interleaved at every await: create, upload and delete requests arrive
\* while others are under way, uploads carrying up to MaxFiles files.
BlobNext ==
    \/ ArriveCreate(OneId)
    \/ ArriveUpload(OneId, MaxBlobs)
    \/ ArriveDelete(OneId)
    \/ SweepStart
    \/ ArriveTick({TTL + 1})
    \/ StepCommon
    \/ StepUpload /\ TextIn(ConcTexts)
    \/ StepDelete
    \/ StepSweep
BlobSpec == Init /\ [][BlobNext]_vars

\* The event loop.  A handler that awaits argon2.hash or argon2.verify waits
\* for the thread pool; every other await of the handlers and of the cleanup
\* job is on a method of SqliteStorage that calls better-sqlite3 and fs
\* synchronously, so its promise is resolved when it is awaited and the
\* continuation is a microtask.  The loop runs one callback from its queues
\* (a request that has arrived, a thread pool result, a timer that is due)
\* and then every microtask, those queued meanwhile included, before it
\* runs the next callback.
Waiting == {"hashing", "verifying"}

\* a variant in which the loop never finds a microtask pending: C19 fails
\* with it
MicrotaskPending_Never == FALSE

MicrotaskPending ==
    \/ sweepPc # "idle"
    \/ \E p \in Procs : pc[p] \notin Waiting \cup {"idle"}

LoopCallback ==
    \/ ArriveCreate(OneId)
    \/ ArriveAccess(OneId)
    \/ ArriveUpload(OneId, ConcBlobs)
    \/ CronTrigger
    \/ \E p \in Procs : CreateInsert(p)
    \/ \E p \in Procs : VerifiedAccess(p)
    \/ \E p \in Procs : VerifiedUpload(p)
LoopMicrotask ==
    \/ \E p \in Procs, pw \in Passwords : GotSlot(p, pw)
    \/ \E p \in Procs : Deleting(p)
    \/ \E p \in Procs : Lockout(p)
    \/ \E p \in Procs : GotFiles(p)
    \/ \E p \in Procs : UploadGetSlot(p)
    \/ \E p \in Procs : Uploading(p)
    \/ StepSweep
LoopNext ==
    \/ ~MicrotaskPending /\ LoopCallback
    \/ LoopMicrotask
    \/ CronFire
    \/ ArriveTick({TTL + 1})
LoopSpec == Init /\ [][LoopNext]_vars

\* Create requests in flight together, with ids of 6, 7 and 8 digits, and
\* delete requests that make an id free again.
IdNext ==
    \/ ArriveCreate(AllIds)
    \/ ArriveDelete(AllIds)
    \/ StepCommon
    \/ StepDelete
IdSpec == Init /\ [][IdNext]_vars

Next ==
    \/ ArriveCreate(OneId)
    \/ ArriveAccess(OneId)
    \/ ArriveUpload(OneId, ConcBlobs)
    \/ ArriveDelete(OneId)
    \/ SweepStart
    \/ ArriveTick({TTL + 1})
    \/ StepCommon
    \/ StepAccess
    \/ StepUpload /\ TextIn(ConcTexts)
    \/ StepDelete
    \/ StepSweep
Spec == Init /\ [][Next]_vars


\* ------------------------------------------------------------ properties
\* the four requests that address a slot
Requests == {"access", "upload", "download", "delete"}
\* the handler of the last response had found no slot / a slot past its expiry
OutAbsent == out.slot = << >>
OutExpired == out.slot # << >> /\ now > out.slot[1].expiresAt
\* nothing of slot s is in the database
NothingLeft(s) ==
    /\ s \notin DOMAIN slots
    /\ s \notin DOMAIN texts
    /\ \A f \in files : f.slotId # s
\* the password is not the one the live slot s was created with
WrongFor(s, password) == slots[s].passwordHash # argon2hash(password)

\* C1: once three access requests with a wrong password have been made on a
\* slot, the slot is deleted as soon as the third of them is over, and an
\* access request made after that is answered NotFound, never with the
\* slot's content or InvalidCredential (until the id is given to a new slot).
C1_LockoutAfterThree ==
    \A s \in SlotIds :
        /\ (Quiet /\ s \in DOMAIN slots) => history.wrong[s] < 3
        /\ (history.wrong[s] >= 3 /\ out.req.kind = "access" /\ out.req.slotId = s)
              => /\ NothingLeft(s)
                 /\ out.resp.code \in {"LockedOut", "NotFound"}
                 /\ out.resp.code = "NotFound" <=> OutAbsent
                 /\ out.resp.files = {} /\ out.resp.text = << >>
\* an access request after the lockout was answered NotFound
C1_Witness ==
    /\ out.req.kind = "access"
    /\ history.wrong[out.req.slotId] = 3
    /\ out.resp.code = "NotFound"

C3_ExpiredOnceThenNotFound ==
    out.req.kind = "access" =>
        /\ OutExpired <=> out.resp.code = "Expired"
        /\ out.resp.code = "Expired" => NothingLeft(out.req.slotId)
        /\ OutAbsent <=> out.resp.code = "NotFound"
\* an access request was answered Expired for a slot that had been created
C3_Witness ==
    /\ out.req.kind = "access"
    /\ OutExpired
    /\ out.resp.code = "Expired"
    /\ out.req.slotId \in history.made

\* C4: on each of the four paths, a request that finds a slot with
\* now > expiresAt goes from getSlot to deleteSlot and to the answer Expired:
\* its password is never read (so it is neither verified nor counted as a
\* failed attempt), no file or text of the slot comes into the answer, no
\* file it carries is registered and no text stored, and the slot is gone.
C4_ExpiredBeforeAnythingElse ==
    /\ \A p \in Procs :
          (/\ req[p].kind \in Requests
           /\ loc[p].slot # << >>
           /\ now > loc[p].slot[1].expiresAt)
             => /\ pc[p] \in {"gotSlot", "deleting"}
                /\ pc[p] = "deleting" => loc[p].after = "Expired"
                /\ req[p].password = ""
                /\ ~loc[p].isValid
                /\ Len(loc[p].todo) = Cardinality(req[p].stored)
    /\ (out.req.kind \in Requests /\ OutExpired)
          => /\ out.resp.code = "Expired"
             /\ out.req.password = ""
             /\ out.req.text = << >>
             /\ out.resp.files = {} /\ out.resp.text = << >>
             /\ out.resp.bytes = << >>
             /\ \A f \in files : f.filename \notin out.req.stored
             /\ NothingLeft(out.req.slotId)
\* an upload that carried a file was answered Expired
C4_Witness ==
    /\ out.req.kind = "upload"
    /\ out.req.stored # {}
    /\ OutExpired
    /\ out.resp.code = "Expired"

\* C5: an upload answered NotFound, Expired or InvalidPassword leaves no
\* blob of the files it carried and no file record for them.
C5_RejectedUploadLeavesNothing ==
    (/\ out.req.kind = "upload"
     /\ out.resp.code \in {"NotFound", "Expired", "InvalidPassword"})
        => /\ out.req.stored \cap blobs = {}
           /\ \A f \in files : f.filename \notin out.req.stored
\* an upload that carried a file was answered NotFound
C5_Witness ==
    /\ out.req.kind = "upload"
    /\ out.req.stored # {}
    /\ out.resp.code = "NotFound"

\* C6: a wrong password on upload, download or delete adds one to the
\* slot's failedAttempts, and the slot is deleted when that makes 3.
C6_WrongPasswordCounts ==
    [][\A p \in Procs :
          (/\ pc[p] = "verifying"
           /\ pc'[p] # "verifying"
           /\ req[p].kind \in {"upload", "download", "delete"}
           /\ req[p].slotId \in DOMAIN slots
           /\ WrongFor(req[p].slotId, req[p].password))
             => LET s == req[p].slotId IN
                IF slots[s].failedAttempts + 1 >= 3
                THEN s \notin DOMAIN slots' \/ pc'[p] \in {"lockout", "deleting"}
                ELSE /\ s \in DOMAIN slots'
                     /\ slots'[s].failedAttempts = slots[s].failedAttempts + 1]_vars
\* a delete request with a wrong password was answered on a live slot
C6_Witness ==
    /\ out.req.kind = "delete"
    /\ out.resp.code = "InvalidPassword"
    /\ out.req.slotId \in DOMAIN slots
    /\ WrongFor(out.req.slotId, out.req.password)

\* C7: a step that completes deleteSlot(s), with no other request under way,
\* leaves no file record of s, no text of s, no row of s, and no blob of a
\* file record that s had.
C7_DeleteSlotLeavesNothing ==
    [][\A s \in DOMAIN slots :
          s \notin DOMAIN slots'
             => /\ \A f \in files : f.slotId = s => f.filename \notin blobs'
                /\ \A f \in files' : f.slotId # s
                /\ s \notin DOMAIN texts']_vars
\* every file received was registered, and a delete request removed the last
\* of the slots, records and blobs
C7_Witness ==
    /\ out.req.kind = "delete"
    /\ out.resp.code = "Deleted"
    /\ nextBlob = MaxBlobs
    /\ nextFileId = MaxBlobs
    /\ blobs = {}
    /\ files = {}
    /\ DOMAIN slots = {}

\* C8: for an id under which no slot exists, deleteSlot enumerates nothing
\* and each of its writes leaves slots, files, texts and blobs as they are
\* (deleteSlot has no statement that fails on an id without a row).
C8_DeleteMissingSlotIsNoOp ==
    \A s \in SlotIds \ DOMAIN slots :
        /\ getFiles(s) = {}
        /\ getTextContent(s) = << >>
        /\ UnlinkAll(blobs, getFiles(s)) = blobs
        /\ DeleteRow(slots, s) = slots
        /\ CascadeFiles(files, s) = files
        /\ CascadeText(texts, s) = texts
\* the second of two lockouts of a slot: deleteSlot under way, with nothing
\* enumerated, on an id whose slot the first has deleted
C8_Witness ==
    \E p \in Procs :
        /\ pc[p] = "deleting"
        /\ loc[p].after = "LockedOut"
        /\ loc[p].del = {}
        /\ req[p].slotId \in history.made \ DOMAIN slots
        /\ history.wrong[req[p].slotId] = 4
        /\ blobs # {}

\* C9 as the specification has it: a delete request for a slot that has
\* already been deleted is answered with the success acknowledgement.
C9_DeleteOfDeletedSucceeds ==
    (/\ out.req.kind = "delete"
     /\ out.req.slotId \in history.made
     /\ OutAbsent)
        => out.resp.code = "Deleted"
\* C9, amended: a delete request for a slot that has already been deleted
\* is answered NotFound: when the slot is gone after a delete request, the
\* request either removed it itself (Deleted, Expired) or found no slot and
\* answered NotFound.
C9_DeleteOfDeletedNotFound ==
    (/\ out.req.kind = "delete"
     /\ out.req.slotId \in history.made \ DOMAIN slots)
        => /\ out.resp.code \in {"NotFound", "Deleted", "Expired"}
           /\ out.resp.code = "NotFound" <=> OutAbsent
           /\ NothingLeft(out.req.slotId)
\* a delete request for a slot deleted before was answered NotFound
C9_Witness ==
    /\ out.req.kind = "delete"
    /\ out.req.slotId \in history.made
    /\ OutAbsent
    /\ out.resp.code = "NotFound"

\* C10: a slot leaves the live set only in the step that completes a delete
\* request with the slot's password, an access request with a wrong password
\* that brought failedAttempts to 3, a request made when now > expiresAt, or
\* the sweep's deletion of a slot with expiresAt <= now; and the step that
\* answers a delete request with a wrong password changes no slot, record
\* or blob.
C10_LeavesOnlyByFourCauses ==
    [][/\ \A s \in DOMAIN slots :
             s \notin DOMAIN slots'
                => \/ \E p \in Procs :
                         /\ pc[p] = "deleting" /\ pc'[p] = "idle"
                         /\ req[p].slotId = s
                         /\ \/ /\ req[p].kind = "delete"
                               /\ ~WrongFor(s, req[p].password)
                               /\ now <= slots[s].expiresAt
                               /\ out'.resp.code = "Deleted"
                            \/ /\ req[p].kind = "access"
                               /\ WrongFor(s, req[p].password)
                               /\ slots[s].failedAttempts = 3
                               /\ out'.resp.code = "LockedOut"
                            \/ /\ req[p].kind \in Requests
                               /\ now > slots[s].expiresAt
                               /\ out'.resp.code = "Expired"
                   \/ /\ sweepPc = "deleting"
                      /\ sweepDel.id = s
                      /\ slots[s].expiresAt <= now
       /\ \A p \in Procs :
             (/\ req[p].kind = "delete"
              /\ pc[p] = "verifying" /\ pc'[p] # "verifying"
              /\ req[p].slotId \in DOMAIN slots
              /\ WrongFor(req[p].slotId, req[p].password))
                => /\ UNCHANGED <<slots, files, texts, blobs>>
                   /\ out'.resp.code = "InvalidPassword"]_vars
\* a delete request with a wrong password was answered, and the slot, a file
\* of it with its blob, and its text are there
C10_Witness ==
    /\ out.req.kind = "delete"
    /\ out.resp.code = "InvalidPassword"
    /\ out.req.slotId \in DOMAIN slots \cap DOMAIN texts
    /\ \E f \in files : f.slotId = out.req.slotId /\ f.filename \in blobs

\* C11: an access request under way while its slot is deleted is answered
\* NotFound or with all the files and the text the slot held when it was
\* deleted; in particular not with InvalidCredential and a number of
\* remaining attempts for a slot that is gone.  (An answer Expired or
\* LockedOut, by which the request reports a deletion of its own, is let
\* pass here.)
C11_AccessSeesAllOrNothing ==
    (out.req.kind = "access" /\ out.raced # << >>)
        => \/ out.resp.code \in {"NotFound", "Expired", "LockedOut"}
           \/ /\ out.resp.code = "OK"
              /\ out.resp.files = out.raced[1].files
              /\ out.resp.text = out.raced[1].text
\* the slot held a file and a text when it was deleted, and the access
\* request under way was answered with success and neither of them
C11_Witness ==
    /\ out.req.kind = "access"
    /\ out.raced # << >>
    /\ out.raced[1].files # {} /\ out.raced[1].text # << >>
    /\ out.resp.code = "OK"
    /\ out.resp.files = {} /\ out.resp.text = << >>
    /\ out.req.slotId \notin DOMAIN slots

\* C12: a failed access is answered InvalidCredential with remaining =
\* 3 - failedAttempts, failedAttempts being the slot's counter after this
\* failure; remaining is then 1 or 2 and the slot is live.  The failure that
\* makes remaining 0 is answered LockedOut, and the slot is deleted.
C12_RemainingIsThreeMinusFailed ==
    out.req.kind = "access" =>
        LET s == out.req.slotId IN
        /\ out.resp.code = "InvalidCredential"
              => /\ s \in DOMAIN slots
                 /\ out.resp.remaining = 3 - slots[s].failedAttempts
                 /\ out.resp.remaining \in {1, 2}
        /\ out.resp.code = "LockedOut" => NothingLeft(s)
\* the second failed access was answered with one attempt remaining
C12_Witness ==
    /\ out.req.kind = "access"
    /\ out.resp.code = "InvalidCredential"
    /\ out.resp.remaining = 1
    /\ history.wrong[out.req.slotId] = 2

\* C13: the failedAttempts of a live slot changes only by the 1 that a
\* failed access adds: no step lowers it, a step after a successful
\* verification leaves it, and between requests it is the number of failed
\* accesses since the slot was created, whatever successful requests came
\* in between (so the third failed access locks out, as C1 has it).
C13_FailedAttemptsOnlyGrows ==
    [][/\ \A s \in DOMAIN slots \cap DOMAIN slots' :
             /\ slots'[s].failedAttempts >= slots[s].failedAttempts
             /\ slots'[s].failedAttempts # slots[s].failedAttempts
                   => /\ slots'[s].failedAttempts = slots[s].failedAttempts + 1
                      /\ \E p \in Procs :
                            /\ pc[p] = "verifying" /\ pc'[p] # "verifying"
                            /\ req[p].kind = "access" /\ req[p].slotId = s
                            /\ WrongFor(s, req[p].password)
       /\ Quiet' => \A s \in DOMAIN slots' :
                        slots'[s].failedAttempts = history'.wrong[s]]_vars
\* after two failed accesses an access request succeeded, and failedAttempts
\* is 2
C13_Witness ==
    /\ out.req.kind = "access"
    /\ out.resp.code = "OK"
    /\ out.req.slotId \in DOMAIN slots
    /\ slots[out.req.slotId].failedAttempts = 2
    /\ history.wrong[out.req.slotId] = 2

\* C14: a request that finds a live, unexpired slot is authorised exactly
\* when its password is the one the slot was created with: verification says
\* so, the answers of an authorised request are given only for that password
\* and the answers of a rejected one only for another.
Authorised == {"OK", "Uploaded", "Download", "FileNotFound",
               "FileNotFoundOnDisk", "Deleted"}
Rejected == {"InvalidCredential", "LockedOut", "InvalidPassword"}
C14_AuthorisedIffPassword ==
    /\ \A p \in Procs :
          pc[p] = "verifying"
             => (loc[p].isValid <=> req[p].password = history.secret[req[p].slotId])
    /\ (out.req.kind \in Requests /\ out.slot # << >> /\ ~OutExpired)
          => /\ out.resp.code \in Authorised \cup Rejected
             /\ out.resp.code \in Authorised
                   <=> out.req.password = history.secret[out.req.slotId]
\* a slot created with the password wxyz was opened with wxyz
C14_Witness ==
    /\ out.req.kind = "access"
    /\ out.resp.code = "OK"
    /\ out.req.password = "wxyz"
    /\ history.secret[out.req.slotId] = "wxyz"

\* C15: with the trigger of the cleanup job firing again and again, and
\* whether or not requests come, a slot with expiresAt <= now is in the end
\* deleted with its file records and its text, and the blob of each of its
\* file records is in the end removed.
C15_SweepReclaimsExpired ==
    /\ \A s \in SlotIds :
          (s \in DOMAIN slots /\ slots[s].expiresAt <= now) ~> NothingLeft(s)
    /\ \A b \in 1..MaxBlobs :
          (/\ b \in blobs
           /\ \E f \in files : /\ f.filename = b
                               /\ f.slotId \in DOMAIN slots
                               /\ slots[f.slotId].expiresAt <= now)
             ~> (b \notin blobs)
\* the cleanup job is deleting an expired slot that holds a file and a text
C15_Witness ==
    /\ sweepPc = "deleting"
    /\ sweepDel.id \in DOMAIN slots \cap DOMAIN texts
    /\ slots[sweepDel.id].expiresAt <= now
    /\ sweepDel.del # {}
    /\ \A f \in sweepDel.del : f.filename \in blobs

\* what is stored for slot s: its row, its file rows, its text, and which of
\* its files' blobs are in the uploads directory
StoredFor(sl, fs, tx, bl, s) ==
    [row |-> sl[s],
     files |-> {f \in fs : f.slotId = s},
     text |-> IF s \in DOMAIN tx THEN <<tx[s]>> ELSE << >>,
     blobs |-> {f.filename : f \in {g \in fs : g.slotId = s}} \cap bl]
\* the step belongs to a run of the cleanup job
SweepStep ==
    sweepPc # "idle" \/ sweepPc' # "idle" \/ out'.req.kind = "cleanup"

C17_SecondSweepDeletesNothing ==
    [][out.resp.code = "CleanupCompleted" =>
        /\ getExpiredSlots(now) = {}
        /\ (sweepPc' # "idle" \/ out'.req.kind = "cleanup") =>
              /\ sweepList' = {}
              /\ sweepPc' = "idle"
              /\ out'.resp.code = "CleanupCompleted"
              /\ out'.req.slotId = ""
              /\ UNCHANGED <<slots, files, texts, blobs>>
    ]_vars
\* the second of two runs in succession is over, after a slot that had been
\* made is gone and with a slot that expires later still there
C17_Witness ==
    /\ out.resp.code = "CleanupCompleted"
    /\ out.runs = 2
    /\ now = TTL
    /\ history.made \ DOMAIN slots # {}
    /\ \E s \in DOMAIN slots : s \in DOMAIN texts /\ slots[s].expiresAt > now

\* C18: a run of the cleanup job tolerates a request handler deleting, as
\* expired, a slot the run has listed.  Whichever of the two deletes second
\* finds nothing to do and changes nothing of the slots, file rows, texts
\* and blobs; the deletion of the job never throws, the job goes on with the
\* rest of its list, and when it is over no slot with expiresAt <= now is
\* left; after the job's deletion of a slot nothing of the slot is stored.
C18_SweepToleratesLazyDeletion ==
    [][/\ (sweepPc = "deleting" /\ sweepPc' # "deleting") =>
             /\ out'.resp.code # "CleanupFailed"
             /\ sweepList' = sweepList
             /\ sweepPc' = IF sweepList = {} THEN "idle" ELSE "listed"
             /\ (sweepList = {}) = (out'.resp.code = "CleanupCompleted")
             /\ sweepDel.id \notin DOMAIN slots =>
                   UNCHANGED <<slots, files, texts, blobs>>
             /\ sweepDel.id \notin DOMAIN slots'
             /\ sweepDel.id \notin DOMAIN texts'
             /\ \A f \in files' : f.slotId # sweepDel.id
             /\ \A f \in sweepDel.del : f.filename \notin blobs'
       /\ \A p \in Procs :
             (pc[p] = "deleting" /\ pc'[p] = "idle"
                                /\ req[p].slotId \notin DOMAIN slots) =>
                /\ UNCHANGED <<slots, files, texts, blobs>>
                /\ out'.resp.code = loc[p].after
       /\ out'.resp.code = "CleanupCompleted" =>
             \A s \in DOMAIN slots' : slots'[s].expiresAt > now'
    ]_vars
\* a handler has just answered Expired after deleting the slot that the job,
\* having listed it and read its file rows, is about to delete, with another
\* expired slot still on the job's list
C18_Witness ==
    /\ sweepPc = "deleting"
    /\ sweepDel.id \notin DOMAIN slots
    /\ sweepDel.del # {}
    /\ \A f \in sweepDel.del : f.filename \notin blobs
    /\ out.req.kind = "access"
    /\ out.req.slotId = sweepDel.id
    /\ out.resp.code = "Expired"
    /\ \E s \in sweepList : s \in DOMAIN slots /\ slots[s].expiresAt <= now

\* C19: two executions of the cleanup job are never under way at once.  The
\* callback of the schedule is called only when no execution is under way;
\* when the time of the schedule comes during a run, the trigger stays due
\* until the run is over and is taken up then, by a run that starts.
C19_SweepRunsNeverOverlap ==
    [][/\ cron.runs <= 1
       /\ cron'.runs <= 1
       /\ (sweepPc # "idle") = (cron.runs = 1)
       /\ cron'.runs > cron.runs => sweepPc = "idle"
       /\ (cron.due /\ sweepPc # "idle") => cron'.due
       /\ (cron.due /\ ~cron'.due) =>
             /\ sweepPc = "idle"
             /\ sweepPc' # "idle" \/ out'.resp.code = "CleanupCompleted"
    ]_vars
\* the time of the schedule has come while a run is in the middle of a
\* deleteSlot
C19_Witness ==
    /\ cron.due
    /\ cron.runs = 1
    /\ sweepPc = "deleting"
    /\ sweepDel.id \in DOMAIN slots

\* C20: every live slot has expiresAt = createdAt + 24 h and the hash of the
\* password it was created with; a row that comes into being has createdAt
\* the time of its insertion and failedAttempts 0; and as long as the row is
\* there no step changes its passwordHash, createdAt or expiresAt.
C20_CreationValuesImmutable ==
    [][/\ \A s \in DOMAIN slots :
             /\ slots[s].id = s
             /\ slots[s].expiresAt = slots[s].createdAt + TTL
             /\ slots[s].passwordHash = argon2hash(history.secret[s])
             /\ s \in DOMAIN slots' =>
                   /\ slots'[s].passwordHash = slots[s].passwordHash
                   /\ slots'[s].createdAt = slots[s].createdAt
                   /\ slots'[s].expiresAt = slots[s].expiresAt
       /\ \A s \in DOMAIN slots' \ DOMAIN slots :
             /\ slots'[s].createdAt = now
             /\ slots'[s].expiresAt = now + TTL
             /\ slots'[s].failedAttempts = 0
             /\ slots'[s].passwordHash = argon2hash(history'.secret[s])
    ]_vars
\* a slot made at time 0 that has been given a file and a text and has
\* counted two failed attempts, at the time of its expiry, next to a slot
\* made at that time
C20_Witness ==
    \E s, t \in DOMAIN slots :
        /\ slots[s].createdAt = 0
        /\ slots[s].expiresAt = TTL
        /\ now = TTL
        /\ slots[s].failedAttempts = 2
        /\ slots[s].passwordHash = argon2hash("abcd")
        /\ s \in DOMAIN texts
        /\ \E f \in files : f.slotId = s
        /\ slots[t].createdAt = TTL
        /\ slots[t].expiresAt = TTL + TTL

\* the decimal digits
Digits == {"0", "1", "2", "3", "4", "5", "6", "7", "8", "9"}
\* s is what generateSlotId makes of some draws, a string of 6, 7 or 8
\* characters each of which is a decimal digit
IsSlotId(s) ==
    /\ Len(s) \in {6, 7, 8}
    /\ \E d \in AllDraws :
          /\ s = generateSlotId(d)
          /\ \A i \in 1..Len(s) : NumberToString(d[i + 1]) \in Digits

\* C21: the id createSlot has generated, the id of every live slot and the
\* id a create request answers with are strings of 6, 7 or 8 decimal digits
\* (a leading zero included); no two rows of the table have the same id, and
\* a create request that succeeds, also one of several in flight together,
\* puts its row under an id that no live slot had, leaving the live slots
\* as they are.
C21_SlotIdsDigitsAndUnique ==
    [][/\ \A p \in Procs : pc[p] = "hashing" => IsSlotId(loc[p].newId)
       /\ \A s \in DOMAIN slots : slots[s].id = s /\ IsSlotId(s)
       /\ \A s, t \in DOMAIN slots : slots[s].id = slots[t].id => s = t
       /\ out'.resp.code = "Created" =>
             LET id == out'.resp.slot[1].slotId IN
             /\ IsSlotId(id)
             /\ id \notin DOMAIN slots
             /\ DOMAIN slots' = DOMAIN slots \cup {id}
             /\ \A s \in DOMAIN slots : slots'[s] = slots[s]
    ]_vars
\* slots with ids of 6, 7 and 8 digits, one of them with a leading zero, are
\* live together, the last made by a request that was in flight with another
C21_Witness ==
    /\ DOMAIN slots = AllIds
    /\ {Len(s) : s \in DOMAIN slots} = {6, 7, 8}
    /\ out.resp.code = "Created"
    /\ \E p \in Procs : pc[p] = "hashing"

\* C22: an access request answered OK (right password, slot live and not
\* expired) holds exactly the file rows the slot has and its text row, or no
\* text when the slot has none; a slot that has just been created has no
\* file row and no text, so that an access right after answers files = []
\* and textContent = null.
C22_AccessReturnsCurrentContent ==
    [][/\ (out.req.kind = "access" /\ out.resp.code = "OK") =>
             LET s == out.req.slotId IN
             /\ s \in DOMAIN slots
             /\ ~IsExpired(now, slots[s])
             /\ ~WrongFor(s, out.req.password)
             /\ out.resp.files = {f \in files : f.slotId = s}
             /\ out.resp.text = IF s \in DOMAIN texts
                                THEN <<[slotId |-> s, content |-> texts[s]]>>
                                ELSE << >>
       /\ out'.resp.code = "Created" =>
             LET id == out'.resp.slot[1].slotId IN
             /\ id \notin DOMAIN texts'
             /\ \A f \in files' : f.slotId # id
    ]_vars
\* an access answered with the one file and the text of its slot, while the
\* other slot holds another file and no text
C22_Witness ==
    /\ out.req.kind = "access"
    /\ out.resp.code = "OK"
    /\ Cardinality(out.resp.files) = 1
    /\ out.resp.text # << >>
    /\ \E t \in DOMAIN slots \ {out.req.slotId} :
          /\ t \notin DOMAIN texts
          /\ \E f \in files : f.slotId = t

\* the names of the fields that stay inside
SecretFields == {"passwordHash", "failedAttempts"}
\* the names of the fields of the records of a response: of its slot part,
\* of its files, of its text
ResponseFields(resp) ==
    UNION ({DOMAIN resp.slot[i] : i \in DOMAIN resp.slot}
              \cup {DOMAIN f : f \in resp.files}
              \cup {DOMAIN resp.text[i] : i \in DOMAIN resp.text})

\* C23: no response, of whatever request and whether success or error, has
\* a field passwordHash or failedAttempts, at the top or in its slot part,
\* files or text; the slot part of an access response has the fields id,
\* createdAt and expiresAt and no other, with the values of the row, and
\* that is what sanitizeSlot makes of every live row.
C23_ResponsesHideHashAndAttempts ==
    /\ DOMAIN out.resp \cap SecretFields = {}
    /\ ResponseFields(out.resp) \cap SecretFields = {}
    /\ (out.req.kind = "access" /\ out.resp.code = "OK") =>
          /\ Len(out.resp.slot) = 1
          /\ DOMAIN out.resp.slot[1] = {"id", "createdAt", "expiresAt"}
          /\ out.resp.slot[1].id = out.req.slotId
    /\ (out.req.kind = "access" /\ out.resp.code # "OK") => out.resp.slot = << >>
    /\ \A s \in DOMAIN slots :
          sanitizeSlot(slots[s]) = [id |-> s, createdAt |-> slots[s].createdAt,
                                    expiresAt |-> slots[s].expiresAt]
\* an access answered with the slot part of a slot whose row holds a hash
\* and a count of two failed attempts
C23_Witness ==
    /\ out.req.kind = "access"
    /\ out.resp.code = "OK"
    /\ out.resp.slot # << >>
    /\ out.req.slotId \in DOMAIN slots
    /\ slots[out.req.slotId].failedAttempts = 2
    /\ slots[out.req.slotId].passwordHash = argon2hash(out.req.password)

\* C24: a download request is answered with the bytes of a file only when
\* the file row with the requested id belongs to the requested slot, the
\* slot is live and the password is the slot's; the bytes are those of that
\* file's blob.  When the row with the requested id belongs to another slot
\* the answer is FileNotFound although the password of the requested slot
\* is right.
C24_DownloadOnlyOwnFiles ==
    out.req.kind = "download" =>
        LET s == out.req.slotId
            own == {f \in files : f.id = out.req.fileId /\ f.slotId = s}
            others == {f \in files : f.id = out.req.fileId /\ f.slotId # s}
        IN
        /\ out.resp.code = "Download" =>
              /\ s \in DOMAIN slots
              /\ ~WrongFor(s, out.req.password)
              /\ own # {}
              /\ \A f \in own : out.resp.bytes = <<f.filename>>
        /\ out.resp.code # "Download" => out.resp.bytes = << >>
        /\ others # {} => out.resp.code = "FileNotFound"
\* a download answered FileNotFound for the id of a file that another live
\* slot holds with its blob, the password being that of the requested slot
C24_Witness ==
    /\ out.req.kind = "download"
    /\ out.resp.code = "FileNotFound"
    /\ out.req.slotId \in DOMAIN slots
    /\ ~WrongFor(out.req.slotId, out.req.password)
    /\ \E f \in files :
          /\ f.id = out.req.fileId
          /\ f.slotId \in DOMAIN slots \ {out.req.slotId}
          /\ f.filename \in blobs

\* the step answers an upload to slot s as done, its text field not blank
UploadedText(s) ==
    /\ out'.req.kind = "upload"
    /\ out'.req.slotId = s
    /\ out'.resp.code = "Uploaded"
    /\ HasText(out'.req.text)

\* C25: a slot has at most one text row.  The step that answers an upload
\* whose text field is not blank leaves the slot's row holding exactly that
\* text, in place of what was there; after any other step a row that is
\* there was there before with the same content.  The content of a slot is
\* thus the text of its most recent successful upload with non-blank text.
C25_TextIsLatestUpload ==
    [][\A s \in SlotIds :
          /\ Len(getTextContent(s)') <= 1
          /\ UploadedText(s) =>
                /\ s \in DOMAIN texts'
                /\ texts'[s] = out'.req.text
          /\ (~UploadedText(s) /\ s \in DOMAIN texts') =>
                /\ s \in DOMAIN texts
                /\ texts'[s] = texts[s]]_vars
\* an upload with the text "hi" or "yo " answered as done for a slot that
\* held the other text before: the row holds the new text
C25_Witness ==
    /\ out.req.kind = "upload"
    /\ out.resp.code = "Uploaded"
    /\ HasText(out.req.text)
    /\ out.prior # << >>
    /\ out.prior[1].content # out.req.text
    /\ out.req.slotId \in DOMAIN texts
    /\ texts[out.req.slotId] = out.req.text

\* the upload handlers that have verified the password and not yet answered
Storing ==
    {p \in Procs : /\ req[p].kind = "upload"
                   /\ \/ pc[p] = "uploading"
                      \/ pc[p] = "verifying" /\ loc[p].isValid}

\* C26: while an upload handler registers what it received, each step
\* leaves the slot rows and the earlier file rows as they are and adds at
\* most rows of the request's slot for files the request stored; the text
\* rows change only by a text field that is not blank, and then only the
\* row of the request's slot.  When the upload of k files is answered as
\* done, exactly k rows stand for the k stored files, all of that slot.
C26_UploadAddsExactlyItsFiles ==
    [][\A p \in Storing :
          LET s == req[p].slotId
              k == Cardinality(req[p].stored)
          IN
          /\ slots' = slots
          /\ files \subseteq files'
          /\ Cardinality(files' \ files) <= 1
          /\ \A f \in files' \ files :
                /\ f.slotId = s
                /\ f.filename \in req[p].stored
                /\ \A g \in files : g.id # f.id /\ g.filename # f.filename
          /\ \A t \in (DOMAIN texts \cup DOMAIN texts') \ {s} :
                t \in DOMAIN texts /\ t \in DOMAIN texts' /\ texts'[t] = texts[t]
          /\ ~UploadedText(s) => texts' = texts
          /\ pc'[p] = "idle" =>
                /\ out'.resp.code = "Uploaded"
                /\ Cardinality({f \in files' : f.filename \in req[p].stored}) = k
                /\ \A f \in files' : f.filename \in req[p].stored => f.slotId = s]_vars
\* an upload of one file with a blank text field answered as done for a slot
\* that held a file and a text before: both are there as they were
C26_Witness ==
    /\ out.req.kind = "upload"
    /\ out.resp.code = "Uploaded"
    /\ Cardinality(out.req.stored) = 1
    /\ out.req.text = <<" ">>
    /\ out.prior # << >>
    /\ getTextContent(out.req.slotId) = out.prior
    /\ \E f \in files : f.slotId = out.req.slotId /\ f.filename \notin out.req.stored
    /\ \E f \in files : f.slotId = out.req.slotId /\ f.filename \in out.req.stored

\* C27: no response to an access, upload or download request carries the
\* name under which a file's blob is kept: none of the file records of the
\* response has the field filename.  (The bytes of a download are the
\* blob's content, not its name.)
C27_FilenameNotExposed ==
    out.req.kind \in {"access", "upload", "download"} =>
        \A f \in out.resp.files : "filename" \notin DOMAIN f
\* an access answered with the file rows of the slot as getFiles read them,
\* the filename of a blob that is kept among their fields
C27_Witness ==
    /\ out.req.kind = "access"
    /\ out.resp.code = "OK"
    /\ \E f \in out.resp.files :
          /\ f \in files
          /\ "filename" \in DOMAIN f
          /\ f.filename \in blobs

\* a password of fewer characters than the least a slot may have, none
\* being zero characters
TooShort(password) == Len(password) < MinPasswordLen

\* C28: a create request without password or with a password of fewer than
\* four characters is answered ValidationError by a step that leaves the
\* slots, the files, the texts and the blobs as they are, and no create
\* request with such a password gets as far as createSlot; a create request
\* answered ValidationError had such a password.
C28_ShortPasswordRejectedUntouched ==
    [][/\ out'.req.kind = "create" =>
            /\ TooShort(out'.req.password) =>
                  /\ out'.resp.code = "ValidationError"
                  /\ UNCHANGED <<slots, files, texts, blobs>>
            /\ out'.resp.code = "ValidationError" => TooShort(out'.req.password)
       /\ \A p \in Procs :
            req'[p].kind = "create" => ~TooShort(req'[p].password)]_vars
\* a create request with a password of three characters, or without
\* password, answered ValidationError while a slot with a file is live
C28_Witness ==
    /\ out.req.kind = "create"
    /\ out.resp.code = "ValidationError"
    /\ out.req.password \in {"abc", MissingPassword}
    /\ DOMAIN slots # {}
    /\ files # {}

\* verifySlotPassword has nothing to verify with: no row, a stored value
\* that is no encoded hash, or no password
NothingToVerify(slotId, password) ==
    \/ slotId \notin DOMAIN slots
    \/ slots[slotId].passwordHash[1] # "argon2id"
    \/ password = MissingPassword

\* C29: the step of a handler that calls verifySlotPassword always goes on
\* with its result and is never answered by the handler's catch; the result
\* is false when the slot has no row, when the stored value is no encoded
\* hash and when the request has no password.  The handler then answers
\* as for a wrong password or, for an access request, locks the slot out.
C29_VerifyNeverRaises ==
    [][\A p \in Procs :
          /\ (pc[p] = "gotSlot" /\ pc'[p] # "gotSlot"
                 /\ ~IsExpired(now, loc[p].slot[1])) =>
                /\ pc'[p] = "verifying"
                /\ NothingToVerify(req[p].slotId, req'[p].password)
                      => ~loc'[p].isValid
          /\ (pc[p] = "verifying" /\ ~loc[p].isValid
                 /\ pc'[p] # "verifying") =>
                \/ pc'[p] = "lockout"
                \/ pc'[p] = "idle" /\ out'.resp.code \in Rejected]_vars
\* an access request answered as one with a wrong password for a slot whose
\* stored value is no encoded hash
C29_Witness ==
    /\ out.req.kind = "access"
    /\ out.resp.code = "InvalidCredential"
    /\ out.req.slotId \in DOMAIN slots
    /\ slots[out.req.slotId].passwordHash[1] # "argon2id"

\* C30: a create request with a password of four characters or more is
\* answered with a new slot, whatever ids createSlot generated and whatever
\* other create requests were in flight with it.
C30_CreateNeverFailsOnCollision ==
    (out.req.kind = "create" /\ ~TooShort(out.req.password))
        => /\ out.resp.code = "Created"
           /\ out.resp.slot # << >>
           /\ out.resp.slot[1].slotId \in DOMAIN slots
\* a create request with a valid password answered 500: the id it had found
\* free before it hashed the password is the id of a live slot that another
\* create request has inserted meanwhile
C30_Witness ==
    /\ out.req.kind = "create"
    /\ ~TooShort(out.req.password)
    /\ out.resp.code = "InternalError"
    /\ DOMAIN slots # {}
    /\ \A s \in DOMAIN slots : slots[s].createdAt = now

\* the step is handler p's call of incrementFailedAttempts
Increments(p) ==
    /\ pc[p] = "verifying"
    /\ req[p].kind = "access"
    /\ ~loc[p].isValid
    /\ pc'[p] # "verifying"

\* C31: with access handlers, deletions and the cleanup job interleaved on
\* one slot id, every call of incrementFailedAttempts on a live slot leaves
\* the row with its counter one higher and nothing else changed, and goes
\* on with exactly the new count: the 401 tells 3 minus that count, and the
\* lockout is taken when that count is 3 or more.  The counter of a row
\* changes by no other step, so that no increment is lost.
C31_IncrementIsAtomic ==
    [][/\ \A p \in Procs :
            (Increments(p) /\ req[p].slotId \in DOMAIN slots) =>
                LET s == req[p].slotId IN
                /\ s \in DOMAIN slots'
                /\ slots'[s] = [slots[s] EXCEPT !.failedAttempts = @ + 1]
                /\ pc'[p] = "idle" =>
                      /\ out'.resp.code = "InvalidCredential"
                      /\ out'.resp.remaining = MaxAttempts - slots'[s].failedAttempts
                      /\ out'.resp.remaining > 0
                /\ pc'[p] # "idle" =>
                      /\ pc'[p] = "lockout"
                      /\ slots'[s].failedAttempts >= MaxAttempts
       /\ \A s \in DOMAIN slots \cap DOMAIN slots' :
            slots'[s].failedAttempts # slots[s].failedAttempts =>
                \E p \in Procs : Increments(p) /\ req[p].slotId = s]_vars
\* two access requests with a wrong password in flight together on a slot
\* with no failed attempt: the one has raised the counter to 1 and has been
\* told 2, the other is about to call incrementFailedAttempts
C31_Witness ==
    /\ out.req.kind = "access"
    /\ out.resp.code = "InvalidCredential"
    /\ out.resp.remaining = 2
    /\ \E p \in Procs :
          /\ pc[p] = "verifying"
          /\ req[p].kind = "access"
          /\ ~loc[p].isValid
          /\ req[p].slotId = out.req.slotId
          /\ req[p].slotId \in DOMAIN slots
          /\ slots[req[p].slotId].failedAttempts = 1

\* an access request for slot s is under way
AccessUnderWay(s) ==
    \E p \in Procs : pc[p] # "idle" /\ req[p].kind = "access" /\ req[p].slotId = s
\* the access handlers that have counted the attempt that locks the slot
\* out and are deleting it
LockingOut(s) ==
    {p \in Procs : /\ req[p].kind = "access" /\ req[p].slotId = s
                   /\ \/ pc[p] = "lockout"
                      \/ pc[p] = "deleting" /\ loc[p].after = "LockedOut"}

\* C32: a live slot has a counter of 0, 1 or 2 whenever no access request
\* for it is under way, and a counter of 3 or more only while the access
\* request that raised it is on its way to delete the slot; when that
\* request is answered, it is answered LockedOut and the slot has no row.
C32_LockoutStates ==
    [][/\ \A s \in DOMAIN slots :
            /\ ~AccessUnderWay(s) => slots[s].failedAttempts \in {0, 1, 2}
            /\ slots[s].failedAttempts >= MaxAttempts => LockingOut(s) # {}
       /\ \A s \in DOMAIN slots' :
            /\ ~AccessUnderWay(s)' => slots'[s].failedAttempts \in {0, 1, 2}
            /\ slots'[s].failedAttempts >= MaxAttempts => LockingOut(s)' # {}
       /\ \A s \in OneId : \A p \in LockingOut(s) :
            pc'[p] = "idle" =>
                /\ out'.resp.code = "LockedOut"
                /\ s \notin DOMAIN slots']_vars
\* the third access request with a wrong password has been answered
\* LockedOut after it raised the counter to 3: the slot has no row, and
\* nothing is under way
C32_Witness ==
    /\ out.req.kind = "access"
    /\ out.resp.code = "LockedOut"
    /\ history.wrong[out.req.slotId] = 3
    /\ out.req.slotId \notin DOMAIN slots
    /\ Quiet

\* C33: a step that registers a file row does so for a file that the
\* middleware had written before the step; after every step every file row
\* has its blob in the uploads directory under its filename, and no two
\* file rows have the same filename.
C33_FileRowsHaveTheirBlob ==
    [][/\ \A f \in files' \ files : f.filename \in blobs
       /\ \A f \in files' : f.filename \in blobs'
       /\ \A f, g \in files' : f.filename = g.filename => f = g]_vars
\* two file rows of a slot, each with its own blob, while a delete request
\* for the slot has enumerated one of them and an upload has registered the
\* other since
C33_Witness ==
    /\ Cardinality(files) = 2
    /\ Cardinality({f.filename : f \in files}) = 2
    /\ \A f \in files : f.filename \in blobs
    /\ \E p \in Procs :
          /\ pc[p] = "deleting"
          /\ Cardinality(loc[p].del) = 1
          /\ loc[p].del \subseteq files

\* the last answer is that of an upload that passed verification and whose
\* slot was deleted before the answer, nothing being under way any more
UploadOutlivedSlot ==
    /\ Quiet
    /\ out.req.kind = "upload"
    /\ out.resp.code \in {"Uploaded", "InternalError"}
    /\ out.req.slotId \notin DOMAIN slots

\* every file that the middleware has stored has been registered by its
\* handler, and nothing is under way any more
AllRegistered == Quiet /\ nextFileId = nextBlob

\* C34: when an upload and a deletion of its slot have run together and
\* both have finished, none of the files the upload stored is left in the
\* uploads directory, and the slot has no file row and no text row: so for
\* an upload that found its slot deleted under it, and so for a file that
\* was registered while a deletion was under way, whose blob is there only
\* as long as its row is.
C34_UploadRacingDeletionLeavesNothing ==
    /\ UploadOutlivedSlot =>
          /\ out.req.stored \cap blobs = {}
          /\ \A f \in files : f.slotId # out.req.slotId
          /\ out.req.slotId \notin DOMAIN texts
    /\ AllRegistered =>
          /\ blobs = {f.filename : f \in files}
          /\ \A f \in files : f.slotId \in DOMAIN slots
          /\ DOMAIN texts \subseteq DOMAIN slots
\* every stored file was registered, the slot has been deleted with its
\* rows, and a blob is still in the uploads directory: its row was
\* registered after the deletion had enumerated the files of the slot
C34_Witness ==
    /\ AllRegistered
    /\ DOMAIN slots = {}
    /\ files = {}
    /\ blobs # {}

\* C35: after every step every file row and every text row is that of a
\* slot that has a row, so that no row outlives its slot; and a step that
\* adds a file row or writes a text row does so for a slot that had a row
\* before the step and has it after.
C35_RowsBelongToLiveSlots ==
    [][/\ \A f \in files' : f.slotId \in DOMAIN slots'
       /\ DOMAIN texts' \subseteq DOMAIN slots'
       /\ \A f \in files' \ files : f.slotId \in DOMAIN slots
       /\ \A s \in DOMAIN texts' :
            (s \notin DOMAIN texts \/ texts'[s] # texts[s]) => s \in DOMAIN slots]_vars
\* an upload that had registered a file and then found its slot deleted: it
\* is answered 500, and neither the file row nor a text row is left
C35_Witness ==
    /\ out.req.kind = "upload"
    /\ out.resp.code = "InternalError"
    /\ out.req.slotId \notin DOMAIN slots
    /\ nextFileId >= 1
    /\ files = {}
    /\ DOMAIN texts = {}

\* the step completes the deletion of slot s by a deleteSlot that had
\* enumerated the file rows del: of their blobs those that were there are
\* gone and no other, and nothing of the slot is stored
DeletionDone(s, del) ==
    /\ blobs' = blobs \ {f.filename : f \in del}
    /\ s \notin DOMAIN slots'
    /\ s \notin DOMAIN texts'
    /\ \A f \in files' : f.slotId # s

\* C36: a deleteSlot that goes on after it has enumerated the file rows of
\* the slot completes whether the blobs of those rows are there or not: it
\* removes those that are there, leaves the other blobs alone, removes the
\* slot row with its file rows and text row, and the handler answers as for
\* a deletion with every blob in place; the cleanup job does not fail.
C36_MissingBlobIsNoError ==
    [][/\ \A p \in Procs :
            (pc[p] = "deleting" /\ pc'[p] # "deleting") =>
                /\ DeletionDone(req[p].slotId, loc[p].del)
                /\ pc'[p] = "idle"
                /\ out'.resp.code = loc[p].after
       /\ (sweepPc = "deleting" /\ sweepPc' # "deleting") =>
            /\ DeletionDone(sweepDel.id, sweepDel.del)
            /\ out'.resp.code # "CleanupFailed"]_vars
\* a handler is about to go on with deleteSlot for two file rows it has
\* enumerated: the blob of the one has been removed meanwhile by another
\* deletion of the slot, the blob of the other is there
C36_Witness ==
    \E p \in Procs :
        /\ pc[p] = "deleting"
        /\ \E f, g \in loc[p].del :
              /\ f.filename \notin blobs
              /\ g.filename \in blobs

OtherInstance(p) ==
    /\ pc[p] # "idle"
    /\ loc[p].slot # << >>
    /\ req[p].slotId \in DOMAIN slots
    /\ slots[req[p].slotId].createdAt # loc[p].slot[1].createdAt
\* the step is one of handler p
StepOf(p) == pc'[p] # pc[p] \/ loc'[p].todo # loc[p].todo

\* C38: a step of a handler whose slot has been deleted, and whose id is
\* that of a slot created since, leaves the new slot as it is: its row
\* (failedAttempts included) stays, no file row and no text is added to it,
\* and it is not deleted.
C38_ActsOnlyOnItsInstance ==
    [][\A p \in Procs :
          (OtherInstance(p) /\ StepOf(p)) =>
              LET s == req[p].slotId IN
              /\ s \in DOMAIN slots'
              /\ slots'[s] = slots[s]
              /\ {f \in files' : f.slotId = s} = {f \in files : f.slotId = s}
              /\ getTextContent(s)' = getTextContent(s)]_vars
\* an upload answered as done for a slot that was created after the upload
\* had read the slot then under that id: a file it carried is registered
\* for the new slot
C38_Witness ==
    /\ out.req.kind = "upload"
    /\ out.resp.code = "Uploaded"
    /\ out.slot # << >>
    /\ out.req.slotId \in DOMAIN slots
    /\ slots[out.req.slotId].createdAt # out.slot[1].createdAt
    /\ \E f \in files : f.slotId = out.req.slotId /\ f.filename \in out.req.stored

====
